---- MODULE Spec2Model ----
(***************************************************************************)
(* Model of count_json_entries.py: the per-file entry counter              *)
(* (count_json_entries), the file locator (scan_json_files) and the        *)
(* reporter (main), with the directory "data" and the report file          *)
(* "data_json_statistics.txt" as the environment.                          *)
(***************************************************************************)
EXTENDS Integers, Sequences, FiniteSets, TLC

\* ------------------------------------------------------------------ bounds

\* Largest number of entries under the root directory.
MaxFiles == 3
\* Largest length of a JSON array in a file.
MaxLen == 2

\* ------------------------------------------------- JSON documents on disk

\* The keys an object may carry: the three the heuristic looks at and one other.
Keys == {"data", "items", "results", "foo"}

NoMembers == [k \in {} |-> 0]

\* A value nested under a key of an object: an array of some length or a string.
Members == [type : {"list"}, len : 0..MaxLen] \cup [type : {"str"}, len : {0}]

JList(n) == [type |-> "list", len |-> n, members |-> NoMembers]
JScalar(t) == [type |-> t, len |-> 0, members |-> NoMembers]
JDict(m) == [type |-> "dict", len |-> 0, members |-> m]

\* Every parsed top-level value json.load can hand back, within the bounds.
JsonValues ==
    {JList(n) : n \in 0..MaxLen}
    \cup {JScalar(t) : t \in {"str", "num", "bool", "null"}}
    \cup {JDict(m) : m \in UNION {[S -> Members] : S \in SUBSET Keys}}

\* str(e) of the exception a failing open/read raises: it may be empty.
Details == {"", "Errno 13"}

\* A file: whether open/read succeeds, whether the text is well-formed JSON,
\* the exception text when one of them fails, and the value it parses to.
Unreadable(d) == [readable |-> FALSE, wellformed |-> FALSE, detail |-> d, value |-> JScalar("null")]
Malformed == [readable |-> TRUE, wellformed |-> FALSE, detail |-> "Expecting value", value |-> JScalar("null")]
WellFormed(v) == [readable |-> TRUE, wellformed |-> TRUE, detail |-> "", value |-> v]

AllFiles ==
    {Unreadable(d) : d \in Details} \cup {Malformed} \cup {WellFormed(v) : v \in JsonValues}

\* ------------------------------------------------------ count_json_entries

isinstance_list(v) == v.type = "list"
isinstance_dict(v) == v.type = "dict"

\* The if/elif chain over the keys of a top-level object.
dict_count_items_first(d) ==
    IF "items" \in DOMAIN d.members /\ isinstance_list(d.members["items"])
    THEN d.members["items"].len
    ELSE IF "data" \in DOMAIN d.members /\ isinstance_list(d.members["data"])
    THEN d.members["data"].len
    ELSE IF "results" \in DOMAIN d.members /\ isinstance_list(d.members["results"])
    THEN d.members["results"].len
    ELSE 1

dict_count(d) ==
    IF "data" \in DOMAIN d.members /\ isinstance_list(d.members["data"])
    THEN d.members["data"].len
    ELSE IF "items" \in DOMAIN d.members /\ isinstance_list(d.members["items"])
    THEN d.members["items"].len
    ELSE IF "results" \in DOMAIN d.members /\ isinstance_list(d.members["results"])
    THEN d.members["results"].len
    ELSE 1

\* The count of a parsed value; a scalar that counts as nothing is the mutant.
value_count_scalar_zero(data) ==
    IF isinstance_list(data) THEN data.len
    ELSE IF isinstance_dict(data) THEN dict_count(data)
    ELSE 0

value_count(data) ==
    IF isinstance_list(data) THEN data.len
    ELSE IF isinstance_dict(data) THEN dict_count(data)
    ELSE 1

\* The two error messages: a fixed prefix followed by str(e).
error_message_bare(prefix, e) == e

error_message(prefix, e) == prefix \o e

\* (count, error) of one file.
count_json_entries(file) ==
    IF ~file.readable
    THEN <<0, error_message("read error: ", file.detail)>>
    ELSE IF ~file.wellformed
    THEN <<0, error_message("JSON parse error: ", file.detail)>>
    ELSE <<value_count(file.value), "">>

\* --------------------------------------------------------- scan_json_files

\* Path strings are sequences of characters, compared as Python compares
\* strings: character by character, a proper prefix first.
DataDir == <<0>>
Names == {<<1>>, <<1, 1>>, <<1, 2>>, <<2>>}

join(root, file) == root \o file

\* relpath of a path that is already relative to the working directory
\* and normalised is that path.
relpath(p) == p

RECURSIVE str_lt(_, _)
str_lt(a, b) ==
    IF a = <<>> THEN b # <<>>
    ELSE IF b = <<>> THEN FALSE
    ELSE IF a[1] # b[1] THEN a[1] < b[1]
    ELSE str_lt(Tail(a), Tail(b))

\* sorted(json_files): insertion into the ascending result, one path at a time.
RECURSIVE insert_path(_, _)
insert_path(s, p) ==
    IF s = <<>> THEN <<p>>
    ELSE IF str_lt(p, Head(s)) THEN <<p>> \o s
    ELSE <<Head(s)>> \o insert_path(Tail(s), p)

RECURSIVE sorted_paths(_)
sorted_paths(s) ==
    IF s = <<>> THEN <<>>
    ELSE insert_path(sorted_paths(SubSeq(s, 1, Len(s) - 1)), s[Len(s)])

scan_json_files_unsorted(walked) == walked

\* walked: the matching paths in the order os.walk met them.
scan_json_files(walked) == sorted_paths(walked)

\* ------------------------------------------------------ main: the helpers

\* if error: a non-empty string is true.
is_error(error) == error # ""

add_entries_one(total, entries) == total + 1

add_entries(total, entries) == total + entries

\* if not json_files
no_files_never(files) == FALSE

no_files(files) == files = <<>>

\* sorted(file_stats, key=lambda x: x[1], reverse=True): stable, so records
\* with equal counts keep their order. Each record goes after every record
\* whose count is at least its own.
RECURSIVE insert_stat(_, _)
insert_stat(s, r) ==
    IF s = <<>> THEN <<r>>
    ELSE IF Head(s)[2] >= r[2] THEN <<Head(s)>> \o insert_stat(Tail(s), r)
    ELSE <<r>> \o s

RECURSIVE sorted_stats_of(_)
sorted_stats_of(s) ==
    IF s = <<>> THEN <<>>
    ELSE insert_stat(sorted_stats_of(SubSeq(s, 1, Len(s) - 1)), s[Len(s)])

\* An ascending sort read backwards: descending, but ties come out reversed.
RECURSIVE insert_stat_asc(_, _)
insert_stat_asc(s, r) ==
    IF s = <<>> THEN <<r>>
    ELSE IF Head(s)[2] <= r[2] THEN <<Head(s)>> \o insert_stat_asc(Tail(s), r)
    ELSE <<r>> \o s

RECURSIVE sorted_asc(_)
sorted_asc(s) ==
    IF s = <<>> THEN <<>>
    ELSE insert_stat_asc(sorted_asc(SubSeq(s, 1, Len(s) - 1)), s[Len(s)])

Reverse(s) == [i \in 1..Len(s) |-> s[Len(s) + 1 - i]]

sort_stats_reversed(stats) == Reverse(sorted_asc(stats))

sort_stats(stats) == sorted_stats_of(stats)

\* open(output_file, "w") truncates what the file held; "a" would keep it.
open_append(old) == old

open_write(old) == <<>>

\* len(json_files) on the report's file-count line.
report_file_count_stats(files, stats) == Len(stats)

report_file_count(files, stats) == Len(files)

\* A line of the console or of the report.
Line(kind, path, num, msg) == [kind |-> kind, path |-> path, num |-> num, msg |-> msg]

\* ----------------------------------------------------------- environment

\* What `date` prints when the report is written.
Timestamps == {"t1", "t2"}

\* The files the reporter is run on: one that cannot be read, one that is
\* not JSON, arrays of every length, and an object with none of the keys.
ScannedFiles ==
    {Unreadable(""), Malformed, WellFormed(JDict([k \in {"foo"} |-> [type |-> "str", len |-> 0]]))}
    \cup {WellFormed(JList(n)) : n \in 0..MaxLen}

\* A directory entry: whether its name ends in ".json", and what it holds.
Entries ==
    [json : {TRUE}, file : ScannedFiles]
    \cup [json : {FALSE}, file : {WellFormed(JScalar("null"))}]

Trees ==
    UNION {[S -> Entries] : S \in {T \in SUBSET Names : Cardinality(T) <= MaxFiles}}

EmptyTree == [n \in {} |-> 0]

\* The report file before the first run: absent, or left by an earlier use.
NoReport == [exists |-> FALSE, lines |-> <<>>]
StaleReport == [exists |-> TRUE, lines |-> <<Line("stale", <<>>, 0, "")>>]

\* Every ordering of a set, as sequences without repetition.
Orderings(S) ==
    {s \in [1..Cardinality(S) -> S] : \A i, j \in 1..Cardinality(S) : i # j => s[i] # s[j]}

\* ----------------------------------------------------------------- state

VARIABLES
    rootExists,     \* os.path.exists("data")
    tree,           \* the entries under data, by name
    report,         \* data_json_statistics.txt
    first_report,   \* the report file as the first run left it
    run,            \* "first" or "second" run of the tool
    pc,             \* where main is
    json_files,     \* main's json_files
    idx,            \* position of the for loop in json_files
    total_entries,  \* main's total_entries
    file_stats,     \* main's file_stats
    sorted_stats,   \* main's sorted_stats, and whether it is bound
    console,        \* the lines printed by this run
    calls,          \* the paths count_json_entries was called on, this run
    writes,         \* how often this run opened the report for writing
    exc,            \* the exception that ended this run, if any
    arg,            \* the file handed to count_json_entries on its own
    ret             \* what that call returned

vars ==
    <<rootExists, tree, report, first_report, run, pc, json_files, idx,
      total_entries, file_stats, sorted_stats, console, calls, writes, exc,
      arg, ret>>

env == <<rootExists, tree, arg, ret>>

Unbound == [bound |-> FALSE, val |-> <<>>]
NotCalled == [called |-> FALSE, val |-> <<0, "">>]

\* The locals of main before its first statement.
FreshRun ==
    /\ pc = "start"
    /\ json_files = <<>>
    /\ idx = 0
    /\ total_entries = 0
    /\ file_stats = <<>>
    /\ sorted_stats = Unbound
    /\ console = <<>>
    /\ calls = <<>>
    /\ writes = 0
    /\ exc = ""

Init ==
    /\ rootExists \in BOOLEAN
    /\ tree \in (IF rootExists THEN Trees ELSE {EmptyTree})
    /\ report \in {NoReport, StaleReport}
    /\ first_report = NoReport
    /\ run = "first"
    /\ FreshRun
    /\ arg = Malformed
    /\ ret = NotCalled

\* open(file_path) reads the entry the path names under data.
read_file(p) == tree[SubSeq(p, Len(DataDir) + 1, Len(p))].file

Rule == Line("rule", <<>>, 0, "")

\* ------------------------------------------------------------------ main

\* Lines 73-81: the banner, then the check that data exists.
CheckRoot ==
    /\ pc = "start"
    /\ IF ~rootExists
       THEN /\ console' = <<Rule, Line("title", <<>>, 0, ""), Rule,
                            Line("root_missing", DataDir, 0, "")>>
            /\ pc' = "returned"
       ELSE /\ console' = <<Rule, Line("title", <<>>, 0, ""), Rule>>
            /\ pc' = "scan"
    /\ UNCHANGED <<env, report, first_report, run, json_files, idx, total_entries,
                   file_stats, sorted_stats, calls, writes, exc>>

\* Lines 83-93: locate the files; return when there are none.
Scan ==
    /\ pc = "scan"
    /\ \E walked \in Orderings({join(DataDir, n) : n \in {m \in DOMAIN tree : tree[m].json}}) :
         LET files == scan_json_files(walked) IN
         /\ json_files' = files
         /\ IF no_files(files)
            THEN /\ console' = Append(console, Line("no_files", DataDir, 0, ""))
                 /\ pc' = "returned"
                 /\ UNCHANGED idx
            ELSE /\ console' = console \o <<Line("found", DataDir, Len(files), ""), Rule>>
                 /\ pc' = "loop"
                 /\ idx' = 1
    /\ total_entries' = 0
    /\ file_stats' = <<>>
    /\ UNCHANGED <<env, report, first_report, run, sorted_stats, calls, writes, exc>>

\* Lines 95-104: one iteration of the for loop.
CountFile ==
    /\ pc = "loop"
    /\ idx <= Len(json_files)
    /\ LET file_path == json_files[idx]
           relative_path == relpath(file_path)
           r == count_json_entries(read_file(file_path))
           entries == r[1]
           error == r[2]
       IN /\ calls' = Append(calls, file_path)
          /\ IF is_error(error)
             THEN /\ console' = Append(console, Line("err", relative_path, 0, error))
                  /\ UNCHANGED <<total_entries, file_stats>>
             ELSE /\ console' = Append(console, Line("ok", relative_path, entries, ""))
                  /\ total_entries' = add_entries(total_entries, entries)
                  /\ file_stats' = Append(file_stats, <<relative_path, entries>>)
    /\ idx' = idx + 1
    /\ UNCHANGED <<env, report, first_report, run, pc, json_files, sorted_stats, writes, exc>>

\* Lines 106-107: the total, once the loop is over.
PrintTotal ==
    /\ pc = "loop"
    /\ idx > Len(json_files)
    /\ console' = console \o <<Rule, Line("total", <<>>, total_entries, "")>>
    /\ pc' = "sort"
    /\ UNCHANGED <<env, report, first_report, run, json_files, idx, total_entries,
                   file_stats, sorted_stats, calls, writes, exc>>

\* Lines 110-115: sorted_stats is bound only when file_stats is not empty.
SortedView ==
    /\ pc = "sort"
    /\ IF file_stats # <<>>
       THEN LET sorted == sort_stats(file_stats) IN
            /\ sorted_stats' = [bound |-> TRUE, val |-> sorted]
            /\ console' = console \o <<Line("sorted_head", <<>>, 0, ""), Rule>>
                 \o [i \in 1..Len(sorted) |-> Line("sorted", sorted[i][1], sorted[i][2], "")]
       ELSE UNCHANGED <<sorted_stats, console>>
    /\ pc' = "write"
    /\ UNCHANGED <<env, report, first_report, run, json_files, idx, total_entries,
                   file_stats, calls, writes, exc>>

\* Lines 118-132: the report. The lines written before the detail list reach
\* the file also when line 129 raises UnboundLocalError: the with block
\* closes it.
WriteReport ==
    /\ pc = "write"
    /\ writes' = writes + 1
    /\ \E ts \in Timestamps :
         LET head == open_write(report.lines) \o
                     << Line("header", <<>>, 0, ""), Rule,
                        Line("time", <<>>, 0, ts),
                        Line("dir", DataDir, 0, ""),
                        Line("file_count", <<>>, report_file_count(json_files, file_stats), ""),
                        Line("total", <<>>, total_entries, ""),
                        Line("blank", <<>>, 0, ""),
                        Line("detail_head", <<>>, 0, ""), Rule >>
         IN IF sorted_stats.bound
            THEN /\ report' = [exists |-> TRUE, lines |-> head \o
                       [i \in 1..Len(sorted_stats.val) |->
                          Line("detail", sorted_stats.val[i][1], sorted_stats.val[i][2], "")]]
                 /\ console' = Append(console, Line("saved", <<>>, 0, ""))
                 /\ pc' = "done"
                 /\ UNCHANGED exc
            ELSE /\ report' = [exists |-> TRUE, lines |-> head]
                 /\ exc' = "UnboundLocalError"
                 /\ pc' = "raised"
                 /\ UNCHANGED console
    /\ UNCHANGED <<env, first_report, run, json_files, idx, total_entries, file_stats,
                   sorted_stats, calls>>

Terminated == pc \in {"returned", "done", "raised"}

\* Lines 135-136: the tool is run again on the same directory.
Rerun ==
    /\ Terminated
    /\ run = "first"
    /\ run' = "second"
    /\ first_report' = report
    /\ pc' = "start"
    /\ json_files' = <<>>
    /\ idx' = 0
    /\ total_entries' = 0
    /\ file_stats' = <<>>
    /\ sorted_stats' = Unbound
    /\ console' = <<>>
    /\ calls' = <<>>
    /\ writes' = 0
    /\ exc' = ""
    /\ UNCHANGED <<env, report>>

Next == CheckRoot \/ Scan \/ CountFile \/ PrintTotal \/ SortedView \/ WriteReport \/ Rerun

Spec == Init /\ [][Next]_vars

\* ------------------------------------- count_json_entries, called on its own

InitCount ==
    /\ arg \in AllFiles
    /\ ret = NotCalled
    /\ rootExists = FALSE
    /\ tree = EmptyTree
    /\ report = NoReport
    /\ first_report = NoReport
    /\ run = "first"
    /\ FreshRun

CountCall ==
    /\ ~ret.called
    /\ ret' = [called |-> TRUE, val |-> count_json_entries(arg)]
    /\ UNCHANGED <<rootExists, tree, report, first_report, run, pc, json_files, idx,
                   total_entries, file_stats, sorted_stats, console, calls, writes,
                   exc, arg>>

NextCount == CountCall

SpecCount == InitCount /\ [][NextCount]_vars

\* ------------------------------------------------------------- properties

RECURSIVE SumCounts(_)
SumCounts(stats) ==
    IF stats = <<>> THEN 0 ELSE stats[1][2] + SumCounts(Tail(stats))

\* The lines of a sequence that are of one of the given kinds, in order.
RECURSIVE OfKind(_, _)
OfKind(lines, kinds) ==
    IF lines = <<>> THEN <<>>
    ELSE IF Head(lines).kind \in kinds THEN <<Head(lines)>> \o OfKind(Tail(lines), kinds)
    ELSE OfKind(Tail(lines), kinds)

Positions(lines, kinds) == {i \in 1..Len(lines) : lines[i].kind \in kinds}

\* A file fails when it cannot be read or is not well-formed JSON.
Fails(file) == ~file.readable \/ ~file.wellformed

\* The located paths, judged by what the files hold.
FailingPaths == {i \in 1..Len(json_files) : Fails(read_file(json_files[i]))}
GoodPaths == {i \in 1..Len(json_files) : ~Fails(read_file(json_files[i]))}

ScanBegan == pc \in {"loop", "sort", "write", "done", "raised"}

\* The keys of an object that hold an array, by their place in the fixed order.
KeyOrder == <<"data", "items", "results">>
Matching(v) ==
    {i \in 1..3 : KeyOrder[i] \in DOMAIN v.members /\ v.members[KeyOrder[i]].type = "list"}
FirstMatching(v) == CHOOSE i \in Matching(v) : \A j \in Matching(v) : i <= j

\* C1: for a parsed top-level object, the count is the length of the value of
\* the first of data, items, results (in that order) that is present with an
\* array value, also when several are; a key present with another kind of
\* value does not match.
C1_FirstMatchingKeyWins ==
    (ret.called /\ arg.readable /\ arg.wellformed /\ arg.value.type = "dict"
        /\ Matching(arg.value) # {})
    => ret.val = <<arg.value.members[KeyOrder[FirstMatching(arg.value)]].len, "">>

\* data is present but holds a string; items and results both hold arrays, of
\* different lengths; the call has returned the length of items.
C1_Witness ==
    /\ ret.called
    /\ arg.readable /\ arg.wellformed /\ arg.value.type = "dict"
    /\ DOMAIN arg.value.members = {"data", "items", "results"}
    /\ arg.value.members["data"].type = "str"
    /\ arg.value.members["items"] = [type |-> "list", len |-> 2]
    /\ arg.value.members["results"] = [type |-> "list", len |-> 1]
    /\ ret.val = <<2, "">>

\* C7: a file that parses gives an empty error and: the length of a top-level
\* array; 1 for an object with none of data, items, results holding an array;
\* 1 for a string, number, boolean or null.
C7_CountOfParsedValue ==
    (ret.called /\ arg.readable /\ arg.wellformed) =>
        /\ ret.val[2] = ""
        /\ arg.value.type = "list" => ret.val[1] = arg.value.len
        /\ (arg.value.type = "dict" /\ Matching(arg.value) = {}) => ret.val[1] = 1
        /\ arg.value.type \in {"str", "num", "bool", "null"} => ret.val[1] = 1

\* The call has returned 1 for a top-level null.
C7_Witness ==
    /\ ret.called
    /\ arg = WellFormed(JScalar("null"))
    /\ ret.val = <<1, "">>

\* C3: throughout the scan loop and after it, the running total is the sum of
\* the counts of the records added so far, which are those of the files
\* processed so far that did not fail; failing files add nothing.
C3_TotalIsSumOfSuccesses ==
    ScanBegan =>
        /\ total_entries = SumCounts(file_stats)
        /\ LET done == IF pc = "loop" THEN idx - 1 ELSE Len(json_files)
               good == SelectSeq([i \in 1..done |-> i], LAMBDA i : i \in GoodPaths)
           IN file_stats =
                [k \in 1..Len(good) |->
                    <<json_files[good[k]], value_count(read_file(json_files[good[k]]).value)>>]

\* The scan is over with a failing file and two files of two entries each.
C3_Witness ==
    /\ pc = "done"
    /\ FailingPaths # {}
    /\ Len(file_stats) = 2
    /\ total_entries = 4

\* The report's lines after the nine that precede the detail list.
ReportHead ==
    <<"header", "rule", "time", "dir", "file_count", "total", "blank", "detail_head", "rule">>

HasReportHead(lines) ==
    /\ Len(lines) >= Len(ReportHead)
    /\ \A i \in 1..Len(ReportHead) : lines[i].kind = ReportHead[i]

DetailLines(lines) == SubSeq(lines, Len(ReportHead) + 1, Len(lines))

\* A full report: the head, then one detail line per record of the sorted view.
FullReport ==
    /\ report.exists
    /\ HasReportHead(report.lines)
    /\ report.lines[4].path = DataDir
    /\ report.lines[5].num = Len(json_files)
    /\ report.lines[6].num = total_entries
    /\ sorted_stats.bound
    /\ DetailLines(report.lines) =
         [i \in 1..Len(sorted_stats.val) |->
            Line("detail", sorted_stats.val[i][1], sorted_stats.val[i][2], "")]

\* C2: once scanning has begun, a run ends only by finishing main after it
\* wrote a full report, whatever the mix of good and failing files, also
\* when every located file fails.
C2_FullReportOnceScanning ==
    (ScanBegan /\ Terminated) => (pc = "done" /\ exc = "" /\ FullReport)

\* C4: a file that cannot be read or parsed gives count 0 and a non-empty
\* message; main prints one error line for it, leaves the total and the
\* records as they are and goes on to the next file; at the end the file is
\* in neither the sorted view nor the report's detail list.
C4_FailingFileStep ==
    (pc = "loop" /\ idx <= Len(json_files) /\ Fails(read_file(json_files[idx]))) =>
        LET r == count_json_entries(read_file(json_files[idx])) IN
        /\ r[1] = 0
        /\ r[2] # ""
        /\ console' = Append(console, Line("err", json_files[idx], 0, r[2]))
        /\ total_entries' = total_entries
        /\ file_stats' = file_stats
        /\ idx' = idx + 1
        /\ pc' = "loop"

C4_FailingFileLeftOut ==
    Terminated =>
        \A i \in FailingPaths :
            /\ \A k \in 1..Len(file_stats) : file_stats[k][1] # json_files[i]
            /\ \A k \in 1..Len(sorted_stats.val) : sorted_stats.val[k][1] # json_files[i]
            /\ writes = 1 =>
                 \A k \in 1..Len(report.lines) : report.lines[k].path # json_files[i]

C4_FailingFileSkipped == [][C4_FailingFileStep]_vars /\ []C4_FailingFileLeftOut

\* A run is over whose first file could not be read (with an empty exception
\* text) and whose second file was counted: the console shows the error line,
\* the total is that of the second file alone.
C4_Witness ==
    /\ pc = "done"
    /\ Len(json_files) = 2
    /\ read_file(json_files[1]) = Unreadable("")
    /\ console[6] = Line("err", json_files[1], 0, "read error: ")
    /\ file_stats = <<<<json_files[2], 2>>>>
    /\ total_entries = 2

\* Nothing under the root is named *.json.
NoJsonFiles == \A n \in DOMAIN tree : ~tree[n].json

\* C5: when the root is missing or holds no .json file, the run counts no
\* file, leaves the report file as it was, and ends after a message.
C5_NoScanStep ==
    (~rootExists \/ NoJsonFiles) =>
        /\ report' = report
        /\ calls' = <<>>
        /\ writes' = 0
        /\ pc' \in {"start", "scan", "returned"}

C5_NoScanMessage ==
    (Terminated /\ (~rootExists \/ NoJsonFiles)) =>
        /\ pc = "returned"
        /\ console[Len(console)].kind = (IF rootExists THEN "no_files" ELSE "root_missing")

C5_NoReportWithoutFiles == [][C5_NoScanStep]_vars /\ []C5_NoScanMessage

\* The second run over a root that holds files, none named *.json, has
\* returned; no report file exists.
C5_Witness ==
    /\ run = "second"
    /\ pc = "returned"
    /\ rootExists
    /\ DOMAIN tree # {}
    /\ NoJsonFiles
    /\ report = NoReport
    /\ console[Len(console)].kind = "no_files"

\* C6: the sorted view holds exactly the successful records, by count
\* descending, records of equal count in ascending path order (their scan
\* order); the console list and the report's detail list show that view.
C6_SortedViewStable ==
    sorted_stats.bound =>
        LET v == sorted_stats.val IN
        /\ Len(v) = Len(file_stats)
        /\ \A k \in 1..Len(file_stats) : \E i \in 1..Len(v) : v[i] = file_stats[k]
        /\ \A i, j \in 1..Len(v) :
             i < j => /\ v[i][2] >= v[j][2]
                      /\ v[i][2] = v[j][2] => str_lt(v[i][1], v[j][1])
        /\ pc \in {"write", "done"} =>
             OfKind(console, {"sorted"}) =
               [i \in 1..Len(v) |-> Line("sorted", v[i][1], v[i][2], "")]
        /\ pc = "done" =>
             DetailLines(report.lines) =
               [i \in 1..Len(v) |-> Line("detail", v[i][1], v[i][2], "")]

\* Files A and B of equal count and C of a larger one, scanned in that order,
\* are listed C, A, B.
C6_Witness ==
    /\ pc = "done"
    /\ Len(file_stats) = 3
    /\ file_stats[1][2] = 1 /\ file_stats[2][2] = 1 /\ file_stats[3][2] = 2
    /\ sorted_stats.val = <<file_stats[3], file_stats[1], file_stats[2]>>

\* C8: the counter is called once per located path, in ascending path order;
\* each file gets one console line, a success line or an error line; the
\* per-file lines come before the total line, the total line before the
\* sorted list, and the sorted list before the one write of the report.
C8_OrderOfEffects ==
    ScanBegan =>
        LET done == IF pc = "loop" THEN idx - 1 ELSE Len(json_files)
            perfile == OfKind(console, {"ok", "err"})
        IN
        /\ \A i, j \in 1..Len(json_files) : i < j => str_lt(json_files[i], json_files[j])
        /\ calls = SubSeq(json_files, 1, done)
        /\ Len(perfile) = done
        /\ \A k \in 1..done :
             /\ perfile[k].path = json_files[k]
             /\ perfile[k].kind = (IF k \in FailingPaths THEN "err" ELSE "ok")
        /\ \A i \in Positions(console, {"ok", "err"}) :
             \A j \in Positions(console, {"total", "sorted", "saved"}) : i < j
        /\ \A i \in Positions(console, {"total"}) :
             \A j \in Positions(console, {"sorted_head", "sorted", "saved"}) : i < j
        /\ Cardinality(Positions(console, {"total"})) = (IF pc = "loop" THEN 0 ELSE 1)
        /\ writes = (IF pc \in {"done", "raised"} THEN 1 ELSE 0)
        /\ writes = 1 =>
             Cardinality(Positions(console, {"sorted"})) = Len(file_stats)

\* Three files, the middle one failing, have been counted and the report
\* written.
C8_Witness ==
    /\ pc = "done"
    /\ Len(calls) = 3
    /\ FailingPaths = {2}
    /\ writes = 1
    /\ Len(OfKind(console, {"sorted"})) = 2

\* A report with the text of its timestamp line blanked.
ModuloTime(lines) ==
    [i \in 1..Len(lines) |->
        IF lines[i].kind = "time" THEN [lines[i] EXCEPT !.msg = ""] ELSE lines[i]]

\* C9: a second run on the unchanged directory replaces the report by one
\* that differs from the first run's in the timestamp line at most.
C9_SecondReportSame ==
    (run = "second" /\ pc \in {"done", "raised"}) =>
        /\ first_report.exists
        /\ ModuloTime(report.lines) = ModuloTime(first_report.lines)

\* Both runs wrote a report with two detail lines of equal count, at
\* different times.
C9_Witness ==
    /\ run = "second"
    /\ pc = "done"
    /\ report # first_report
    /\ Len(file_stats) = 2
    /\ file_stats[1][2] = file_stats[2][2]

\* C10: in a written report the file-count line is the number of located
\* files, good and failing, and there is one detail line per good file, so
\* the two differ by the number of files that gave an error.
C10_FileCountVersusDetail ==
    writes = 1 =>
        /\ HasReportHead(report.lines)
        /\ report.lines[5].num = Len(json_files)
        /\ report.lines[5].num = Cardinality(GoodPaths) + Cardinality(FailingPaths)
        /\ Len(DetailLines(report.lines)) = Cardinality(GoodPaths)
        /\ \A k \in 1..Len(DetailLines(report.lines)) : DetailLines(report.lines)[k].kind = "detail"
        /\ report.lines[5].num - Len(DetailLines(report.lines))
             = Len(OfKind(console, {"err"}))

\* A report of three files with one detail line: two files gave an error.
C10_Witness ==
    /\ pc = "done"
    /\ report.lines[5].num = 3
    /\ Len(DetailLines(report.lines)) = 1
    /\ Len(OfKind(console, {"err"})) = 2

====
